---- MODULE Spec2Model ----
(***************************************************************************)
(* A model of the ultralog file logger.                                    *)
(*                                                                         *)
(*   - src/ultralog/local.py     class UltraLog: producers calling log(),  *)
(*     the background _batch_writer thread, _flush_batch, _rotate_log and  *)
(*     close().                                                            *)
(*   - src/ultralog/__init__.py  class UltraLog of the package: the same   *)
(*     shape with its own _flush_batch / _rotate_log / close.              *)
(*                                                                         *)
(* A record is [p, n, lv, min, len]: the producer that logged it, the      *)
(* index of the call in that producer, the severity of the call, the       *)
(* minimum severity the call read, the byte length of the formatted record.*)
(*  Files are sequences of records; the    *)
(* file with index 0 is the active path, index i >= 1 is the backup        *)
(* path.i.                                                                 *)
(***************************************************************************)
EXTENDS Integers, Sequences, FiniteSets, TLC

\* ---------------------------------------------------------------- bounds
\* log() calls the producers make in one behaviour, all producers together.
MaxCalls == 2
\* Stand-in for _BATCH_SIZE (50 in the source), scaled to the message count.
BATCH_SIZE == 2
\* I/O failures injected in one behaviour of the fault specification.
MaxFaults == 1
\* close() calls the closing thread makes.
MaxCloseCalls == 2
\* The last value of the clock, in tenths of a second.
MaxClock == 12

\* ---------------------------------------------------------------- threads
Producers == {"p1", "p2"}
Worker == "worker"
Closers == {"closer", "closer2"}
Flushers == {Worker} \cup Closers
Threads == Producers \cup Flushers

NoThread == "none"
NoFile == [ex |-> FALSE, data |-> <<>>]
File(data) == [ex |-> TRUE, data |-> data]
NoRec == [p |-> "none", n |-> 0, lv |-> 0, min |-> 0, len |-> 0]

\* self._BATCH_SIZE = batch_size or self._BATCH_SIZE: the batch_size argument
\* if the constructor got one, else the class default.
BatchSize(c) == IF "batch_size" \in DOMAIN c THEN c.batch_size ELSE BATCH_SIZE

\* The threads that call close(): the one closing thread, unless the
\* scenario names several.
CloseCallers(e) == IF "closers" \in DOMAIN e THEN e.closers ELSE {"closer"}

\* ---------------------------------------------------------------- levels
LOG_LEVELS == [DEBUG |-> 10, INFO |-> 20, WARNING |-> 30, ERROR |-> 40, CRITICAL |-> 50]

\* _LOG_LEVELS.get(level.upper(), 20)
LevelValue(name) == IF name \in DOMAIN LOG_LEVELS THEN LOG_LEVELS[name] ELSE 20

\* The message lengths passed to log().
MsgLens == {20}

\* LogFormatter.format_message: "<timestamp> - <name> - <LEVEL> - <msg>\n",
\* timestamp "YYYY-MM-DD HH:MM:SS" (19 bytes), name "UltraLogger" (11 bytes).
FormatLen(msgLen, levelName) == 19 + 3 + 11 + 3 + Len(levelName) + 3 + msgLen + 1

\* ---------------------------------------------------------------- state
\* Threads that call LogFormatter._get_timestamp directly.
Formatters == {"f1", "f2", "f3"}

\* _TIMESTAMP_CACHE_TIME = 0.5 s, in tenths of a second.
TIMESTAMP_CACHE_TIME == 5

\* The clock when the formatter is built: time.time() is far more than the
\* window after 0, the capture time the constructor records.
StartClock == TIMESTAMP_CACHE_TIME + 1

\* self._last_timestamp = "" of the constructor.
NoStamp == -1

VARIABLES
    cfg,            \* constructor arguments: max_file_size, backup_count,
                    \* enable_rotation, console_output, truncate_file
    level,          \* self._level
    closed,         \* self._closed
    write_queue,    \* self._write_queue
    file_handle,    \* self._file_handle is not None
    current_size,   \* self._current_size
    file_lock,      \* holder of self._file_lock, or NoThread
    files,          \* the directory: index -> content or NoFile
    console,        \* records printed to the console mirror
    pc,             \* position of every thread
    batch,          \* the local `batch` of the worker / of close()
    needs_rotation, \* the local `needs_rotation` of _flush_batch
    cur,            \* the record a producer's log() call is carrying
    calls,          \* log() calls a producer has made
    closeCalls,     \* close() calls started so far
    raised,         \* threads out of which an exception escaped
    env,            \* the scenario: I/O failures the environment may inject,
                    \* level strings passed to log(), log() calls per producer,
                    \* level strings passed to the level setter, the backup
                    \* files the directory holds when the logger is built
    ioErrors,       \* I/O failures injected so far
    pushed,         \* history: records put on the queue
    timeouts,       \* history: close()'s drain or join timed out
    lateLog,        \* history: a log() call ran after close() was called
    accepted,       \* history: records of the log() calls made on an open logger
                    \* at or above the minimum severity they read
    lastRot,        \* history: the last rotation that ran
    clock,          \* time.time(), in tenths of a second
    last_timestamp, \* self._last_timestamp: the time datetime.now() gave
    last_timestamp_time, \* self._last_timestamp_time
    timestamp_lock, \* holder of self._timestamp_lock, or NoThread
    current_time,   \* the local `current_time` of a _get_timestamp call
    tpc,            \* position of every thread that calls _get_timestamp
    stamps          \* history: the capture times recorded so far

\* The logger's state.
logvars == <<cfg, level, closed, write_queue, file_handle, current_size, file_lock,
             files, console, pc, batch, needs_rotation, cur, calls, closeCalls,
             raised, env, ioErrors, pushed, timeouts, lateLog, accepted, lastRot>>

\* The formatter's timestamp cache and the threads formatting directly.
tsvars == <<clock, last_timestamp, last_timestamp_time, timestamp_lock,
            current_time, tpc, stamps>>

vars == <<logvars, tsvars>>

\* ---------------------------------------------------------------- helpers
RECURSIVE Size(_)
\* sum(len(msg) for msg in batch); os.path.getsize of a file's content
Size(s) == IF s = <<>> THEN 0 ELSE Head(s).len + Size(Tail(s))

Exists(fs, i) == i \in DOMAIN fs /\ fs[i].ex

Prefix(s, k) == SubSeq(s, 1, k)

\* lastRot: how the last _rotate_log call ended, the directory before it, the
\* I/O calls that failed in it; count = rotations that shifted the backups,
\* first = the active file's content before the first of them, broken = some
\* _rotate_log call ended in its timeout or in an I/O error.
NoRotation == [outcome |-> "none", before |-> <<>>, faults |-> {}, count |-> 0,
               first |-> <<>>, broken |-> FALSE]

\* ---------------------------------------------------------------- file state
\* The places where the environment can make an I/O call fail, as pairs
\* <<operation, backup index>>.
RotateFaultPoints(N) ==
    {<<"getsize", 0>>, <<"close", 0>>, <<"remove", 0>>, <<"open", 0>>}
        \cup {<<"rename", i>> : i \in 1..(N - 1)}
        \cup {<<"create", i>> : i \in 1..N}

FaultSets(points, budget) == {F \in SUBSET points : Cardinality(F) <= budget}

\* _open_file: open the active path for append (creating it), re-derive
\* current_size from the file; on an exception the handle is cleared.
OpenFile(st, fail) ==
    IF fail
    THEN [st EXCEPT !.handle = FALSE]
    ELSE LET fs == IF Exists(st.files, 0) THEN st.files ELSE [st.files EXCEPT ![0] = File(<<>>)]
         IN  [files |-> fs, handle |-> TRUE, cs |-> Size(fs[0].data)]

\* A rename loop that starts one index too high: range(backup_count, 0, -1).
ShiftFromOldest(N) == N

\* The first index the rename loop of _rotate_log visits: range(backup_count - 1, 0, -1).
ShiftStart(N) == N - 1

\* A rename loop that walks from path.1 upward, so that a backup is
\* overwritten before it has been moved.
ShiftBackupsAscending(fs, i, tmo, F) ==
    LET step[k \in 0..(IF i > 0 THEN i ELSE 0)] ==
            IF k = 0 THEN fs
            ELSE LET g == step[k - 1]
                 IN  IF Exists(g, k) THEN [g EXCEPT ![k + 1] = g[k], ![k] = NoFile] ELSE g
    IN  [files |-> step[IF i > 0 THEN i ELSE 0], timedOut |-> FALSE]

RECURSIVE ShiftBackups(_, _, _, _)
\* The rename loop: for i from `i` down to 1, raise TimeoutError when the clock
\* check at iteration tmo fires, else rename path.i to path.(i+1) if it exists.
ShiftBackups(fs, i, tmo, F) ==
    IF i <= 0 THEN [files |-> fs, timedOut |-> FALSE]
    ELSE IF i = tmo THEN [files |-> fs, timedOut |-> TRUE]
    ELSE LET moved == IF Exists(fs, i) /\ <<"rename", i>> \notin F
                      THEN [fs EXCEPT ![i + 1] = fs[i], ![i] = NoFile]
                      ELSE fs
         IN  ShiftBackups(moved, i - 1, tmo, F)

\* The indexes the verification loop of _rotate_log fills: range(1, backup_count + 1).
PlaceholderSlots(N) == 1..N

\* "Create empty backup file if missing".
CreateMissing(fs, N, F) ==
    [i \in DOMAIN fs |->
        IF i \in PlaceholderSlots(N) /\ ~fs[i].ex /\ <<"create", i>> \notin F
        THEN File(<<>>) ELSE fs[i]]

\* "First remove the oldest backup if it exists": path.<backup_count>.
RemoveOldest(fs, N, F) ==
    IF N >= 1 /\ Exists(fs, N) /\ <<"remove", 0>> \notin F
    THEN [fs EXCEPT ![N] = NoFile] ELSE fs

\* The recovery of both except branches: reopen the path if it exists.
Recover(st, F) ==
    IF Exists(st.files, 0) THEN OpenFile(st, <<"open", 0>> \in F) ELSE st

\* The body of _rotate_log under the file lock.  st = [files, handle, cs];
\* F = the failing I/O calls; tmo = the loop index at which the 2 s timeout
\* fires (0: it does not).  Returns the new state and how the call ended.
\* The early return of lines 164-166 comes first.
RotateLog(st, c, F, tmo) ==
    IF ~c.enable_rotation
    THEN [st |-> st, outcome |-> "disabled"]
    ELSE IF <<"getsize", 0>> \in F \/ ~Exists(st.files, 0)
    THEN [st |-> Recover(st, F), outcome |-> "error"]
    ELSE IF Size(st.files[0].data) <= c.max_file_size
    THEN [st |-> st, outcome |-> "skipped"]
    ELSE LET N   == c.backup_count
             s1  == [st EXCEPT !.handle = FALSE]
             fs1 == RemoveOldest(s1.files, N, F)
             sh  == ShiftBackups(fs1, ShiftStart(N), tmo, F)
         IN  IF sh.timedOut
             THEN [st |-> Recover([s1 EXCEPT !.files = sh.files], F), outcome |-> "timeout"]
             ELSE LET fs3 == CreateMissing(sh.files, N, F)
                      s4  == OpenFile([s1 EXCEPT !.files = fs3], <<"open", 0>> \in F)
                  IN  [st |-> [s4 EXCEPT !.cs = 0], outcome |-> "rotated"]

\* The ways the write of a batch of n records can fail: the open, the write of
\* the k-th record, or the flush of the buffered bytes.
WriteFaults(n) == {<<"wopen", 0>>, <<"flush", 0>>} \cup {<<"write", k>> : k \in 1..n}

\* A write section that writes through self._file_handle and writes nothing
\* when the handle is None.
WriteBatchThroughHandle(st, b, fault) ==
    IF fault[1] = "wopen" \/ ~st.handle THEN st
    ELSE LET fs0   == st.files[0].data
             k     == IF fault[1] = "write" THEN fault[2] - 1 ELSE Len(b)
             done  == Prefix(b, k)
             ondisk == IF fault[1] = "flush" THEN fs0 ELSE fs0 \o done
         IN  [st EXCEPT !.files = [st.files EXCEPT ![0] = File(ondisk)],
                        !.cs = st.cs + Size(done)]

\* A write section that leaves out the last record of the batch.
WriteBatchButLast(st, b, fault) ==
    IF fault[1] = "wopen" \/ b = <<>> THEN st
    ELSE LET done == Prefix(b, Len(b) - 1)
         IN  [st EXCEPT !.files = [st.files EXCEPT ![0] = File(st.files[0].data \o done)],
                        !.cs = st.cs + Size(done)]

\* The write section of _flush_batch: open(fp, 'ab'), write every record,
\* count the bytes.  fault is <<"none", 0>> or a member of WriteFaults.
WriteBatch(st, b, fault) ==
    IF fault[1] = "wopen" THEN st
    ELSE LET fs0   == st.files[0].data
             k     == IF fault[1] = "write" THEN fault[2] - 1 ELSE Len(b)
             done  == Prefix(b, k)
             ondisk == IF fault[1] = "flush" THEN fs0 ELSE fs0 \o done
         IN  [st EXCEPT !.files = [st.files EXCEPT ![0] = File(ondisk)],
                        !.cs = st.cs + Size(done)]

FileState == [files |-> files, handle |-> file_handle, cs |-> current_size]

\* Handlers among which the write section of _flush_batch has no try/except.
CaughtByNoFlushGuard(site) ==
    CASE site = "print" -> "_safe_console_output"
      [] site \in {"getsize", "close", "remove", "rename", "create"} -> "_rotate_log"
      [] site = "open" -> "_open_file"
      [] site = "hclose" -> "close"
      [] OTHER -> "uncaught"

\* Handlers among which the console mirror has no try/except of its own.
CaughtByBarePrint(site) ==
    CASE site \in {"wopen", "write", "flush"} -> "_flush_batch"
      [] site \in {"getsize", "close", "remove", "rename", "create"} -> "_rotate_log"
      [] site = "open" -> "_open_file"
      [] site = "hclose" -> "close"
      [] OTHER -> "uncaught"

\* The handler that catches an exception raised at an I/O call site, or
\* "uncaught" when it reaches the caller of the public method.
CaughtBy(site) ==
    CASE site = "print" -> "_safe_console_output"
      [] site \in {"wopen", "write", "flush"} -> "_flush_batch"
      [] site \in {"getsize"} -> "_rotate_log"
      [] site \in {"close", "remove", "rename", "create"} -> "_rotate_log"
      [] site = "open" -> "_open_file"
      [] site = "hclose" -> "close"
      [] OTHER -> "uncaught"

Escapes(site) == CaughtBy(site) = "uncaught"

\* ---------------------------------------------------------------- construction
MaxFileSizes == {40, 100}
BackupCounts == {1, 2}

\* A record an earlier run of the program left in the active file.
OldRec == [p |-> "old", n |-> 0, lv |-> 20, min |-> 10, len |-> FormatLen(20, "INFO")]

\* The record a backup file path.i holds that was in the directory before the
\* logger was built.
OldBackup(i) == [p |-> "backup", n |-> i, lv |-> 20, min |-> 10, len |-> FormatLen(20, "INFO")]

\* The active file as __init__ leaves it: emptied by _truncate_file, or with
\* what an earlier run wrote, then opened for append by _open_file.
InitialFile(c) == IF c.truncate_file THEN File(<<>>) ELSE File(<<OldRec>>)

\* UltraLog.__init__ with fp set: the active file exists, the handle is open,
\* current_size is the file's size, the writer thread is about to test _closed.
InitWith(c, lvl, e) ==
    /\ cfg = c
    /\ env = e
    /\ level = LevelValue(lvl)
    /\ closed = FALSE
    /\ write_queue = <<>>
    /\ file_handle = TRUE
    /\ current_size = Size(InitialFile(c).data)
    /\ file_lock = NoThread
    /\ files = [i \in 0..(c.backup_count + 1) |->
                    IF i = 0 THEN InitialFile(c)
                    ELSE IF i \in e.backups THEN File(<<OldBackup(i)>>)
                    ELSE NoFile]
    /\ console = {}
    /\ pc = [t \in Threads |->
                IF t \in Producers THEN "idle" ELSE IF t = Worker THEN "w_check" ELSE "c_idle"]
    /\ batch = [t \in Flushers |-> <<>>]
    /\ needs_rotation = [t \in Flushers |-> FALSE]
    /\ cur = [p \in Producers |-> NoRec]
    /\ calls = [p \in Producers |-> 0]
    /\ closeCalls = 0
    /\ raised = {}
    /\ ioErrors = 0
    /\ pushed = {}
    /\ timeouts = FALSE
    /\ lateLog = FALSE
    /\ accepted = {}
    /\ lastRot = NoRotation
    /\ clock = StartClock
    /\ last_timestamp = NoStamp
    /\ last_timestamp_time = 0
    /\ timestamp_lock = NoThread
    /\ current_time = [f \in Formatters |-> 0]
    /\ tpc = [f \in Formatters |-> "ts_idle"]
    /\ stamps = <<>>

\* Two producers, no I/O failure, every call at INFO on a DEBUG logger.
Init ==
    \E mfs \in MaxFileSizes, bc \in BackupCounts, tr \in BOOLEAN :
        InitWith([max_file_size |-> mfs, backup_count |-> bc, enable_rotation |-> TRUE,
                  console_output |-> FALSE, truncate_file |-> tr],
                 "DEBUG",
                 [faults |-> 0, levels |-> {"INFO"},
                  calls |-> [p \in Producers |-> MaxCalls], setLevels |-> {}, backups |-> {}])

RECURSIVE SumCalls(_)
SumCalls(ps) == IF ps = {} THEN 0
                ELSE LET p == CHOOSE q \in ps : TRUE IN calls[p] + SumCalls(ps \ {p})
TotalCalls == SumCalls(Producers)

\* ---------------------------------------------------------------- the environment
\* The failures the environment may still inject.  ioErrors counts the
\* failures that changed what the program did; a failure that is swallowed
\* without any effect on the logger's state leaves the count alone.
Budget == env.faults - ioErrors
MayFail == IF Budget > 0 THEN BOOLEAN ELSE {FALSE}

\* _safe_console_output(message) when print fails (pf) or not: the exception
\* is swallowed.  The result is whether the caller goes on normally.
SafeConsoleOutput(pf) == ~(pf /\ Escapes("print"))

\* ---------------------------------------------------------------- log()
\* A log() without the test of _closed.
ClosedTestSkipped(flag) == FALSE

\* `if self._closed: return`, the first statement of log().
ClosedTest(flag) == flag

\* A severity test against INFO, the level at construction, whatever the
\* level is now.
DiscardedBelowInfo(level_value, min) == level_value < 20

\* A severity test that also drops a call made exactly at the minimum.
DiscardedAtMinimum(level_value, min) == level_value <= min

\* `if level_value < self.level: return`
Discarded(level_value, min) == level_value < min

\* utils.py lines 81-87 run without interruption at time `now`: the cache
\* after the call.
GetTimestamp(now) ==
    IF now - last_timestamp_time > TIMESTAMP_CACHE_TIME
    THEN [stamp |-> now, time |-> now, stamps |-> Append(stamps, now)]
    ELSE [stamp |-> last_timestamp, time |-> last_timestamp_time, stamps |-> stamps]

\* log(), lines 341-353: test _closed, compare the severity with the level,
\* format the record (the logger specifications hold the clock still, and
\* their producers format one at a time), mirror it to the console.  The reads of _closed and of
\* the level are one step: the level setter writes nothing another thread
\* than a producer reads, so a setter call between the two reads can be moved
\* before the first.
LogCheck(p) ==
    /\ pc[p] = "idle"
    /\ calls[p] < env.calls[p]
    /\ TotalCalls < MaxCalls
    /\ calls' = [calls EXCEPT ![p] = @ + 1]
    /\ lateLog' = (lateLog \/ closeCalls > 0)
    /\ \E lvl \in env.levels, ml \in MsgLens, pf \in MayFail :
         LET rec == [p |-> p, n |-> calls[p] + 1, lv |-> LevelValue(lvl),
                     min |-> level, len |-> FormatLen(ml, lvl)]
             printed == cfg.console_output /\ ~pf
         IN  /\ accepted' = IF ~closed /\ rec.lv >= rec.min
                              THEN accepted \cup {rec} ELSE accepted
             /\ IF ClosedTest(closed) \/ Discarded(LevelValue(lvl), level)
                THEN /\ ~pf
                     /\ UNCHANGED <<pc, cur, console, raised, ioErrors>>
                     /\ UNCHANGED <<last_timestamp, last_timestamp_time, stamps>>
                ELSE /\ pf => cfg.console_output
                     /\ last_timestamp' = GetTimestamp(clock).stamp
                     /\ last_timestamp_time' = GetTimestamp(clock).time
                     /\ stamps' = GetTimestamp(clock).stamps
                     /\ ioErrors' = IF pf THEN ioErrors + 1 ELSE ioErrors
                     /\ console' = IF printed THEN console \cup {rec} ELSE console
                     /\ IF SafeConsoleOutput(pf)
                        THEN /\ pc' = [pc EXCEPT ![p] = "put"]
                             /\ cur' = [cur EXCEPT ![p] = rec]
                             /\ UNCHANGED raised
                        ELSE /\ raised' = raised \cup {p}
                             /\ UNCHANGED <<pc, cur>>
    /\ UNCHANGED <<cfg, env, level, closed, write_queue, file_handle, current_size,
                   file_lock, files, batch, needs_rotation, closeCalls, pushed,
                   timeouts, lastRot, clock, timestamp_lock, current_time, tpc>>

\* A put that first waits for the file lock to be free.
LogPutWhenUnlocked(p) ==
    /\ pc[p] = "put"
    /\ file_lock = NoThread
    /\ write_queue' = Append(write_queue, cur[p])
    /\ pushed' = pushed \cup {cur[p]}
    /\ lateLog' = (lateLog \/ closeCalls > 0)
    /\ cur' = [cur EXCEPT ![p] = NoRec]
    /\ pc' = [pc EXCEPT ![p] = "idle"]
    /\ UNCHANGED <<tsvars, cfg, env, level, closed, file_handle, current_size, file_lock,
                   files, console, batch, needs_rotation, calls, closeCalls, raised,
                   ioErrors, timeouts, accepted, lastRot>>

\* log(), lines 356-358: put the record on the queue.
LogPut(p) ==
    /\ pc[p] = "put"
    /\ write_queue' = Append(write_queue, cur[p])
    /\ pushed' = pushed \cup {cur[p]}
    /\ lateLog' = (lateLog \/ closeCalls > 0)
    /\ cur' = [cur EXCEPT ![p] = NoRec]
    /\ pc' = [pc EXCEPT ![p] = "idle"]
    /\ UNCHANGED <<tsvars, cfg, env, level, closed, file_handle, current_size, file_lock,
                   files, console, batch, needs_rotation, calls, closeCalls, raised,
                   ioErrors, timeouts, accepted, lastRot>>

\* ---------------------------------------------------------------- _batch_writer
\* A loop test that never sees the closed flag.
WorkerCheckNeverExits ==
    /\ pc[Worker] = "w_check"
    /\ pc' = [pc EXCEPT ![Worker] = "w_drain"]
    /\ batch' = [batch EXCEPT ![Worker] = <<>>]
    /\ UNCHANGED <<tsvars, cfg, env, level, closed, write_queue, file_handle, current_size,
                   file_lock, files, console, needs_rotation, cur, calls, closeCalls,
                   raised, ioErrors, pushed, timeouts, lateLog, accepted, lastRot>>

\* `while not self._closed:` and `batch = []`.
WorkerCheck ==
    /\ pc[Worker] = "w_check"
    /\ pc' = [pc EXCEPT ![Worker] = IF closed THEN "w_done" ELSE "w_drain"]
    /\ batch' = [batch EXCEPT ![Worker] = <<>>]
    /\ UNCHANGED <<tsvars, cfg, env, level, closed, write_queue, file_handle, current_size,
                   file_lock, files, console, needs_rotation, cur, calls, closeCalls,
                   raised, ioErrors, pushed, timeouts, lateLog, accepted, lastRot>>

\* A drain loop that breaks only once the batch is longer than the batch size.
WorkerDrainOverfull ==
    /\ pc[Worker] = "w_drain"
    /\ IF write_queue # <<>>
       THEN /\ write_queue' = Tail(write_queue)
            /\ batch' = [batch EXCEPT ![Worker] = Append(@, Head(write_queue))]
            /\ pc' = [pc EXCEPT ![Worker] =
                        IF Len(batch[Worker]) + 1 > BatchSize(cfg) THEN "fb_check" ELSE "w_drain"]
       ELSE /\ pc' = [pc EXCEPT ![Worker] =
                        IF batch[Worker] # <<>> THEN "fb_check" ELSE "w_sleep"]
            /\ UNCHANGED <<write_queue, batch>>
    /\ UNCHANGED <<tsvars, cfg, env, level, closed, file_handle, current_size, file_lock,
                   files, console, needs_rotation, cur, calls, closeCalls, raised,
                   ioErrors, pushed, timeouts, lateLog, accepted, lastRot>>

\* One get_nowait() of the inner loop: pop a record, or see queue.Empty and
\* leave the loop; `if batch: self._flush_batch(batch)`.
WorkerDrain ==
    /\ pc[Worker] = "w_drain"
    /\ IF write_queue # <<>>
       THEN /\ write_queue' = Tail(write_queue)
            /\ batch' = [batch EXCEPT ![Worker] = Append(@, Head(write_queue))]
            /\ pc' = [pc EXCEPT ![Worker] =
                        IF Len(batch[Worker]) + 1 >= BatchSize(cfg) THEN "fb_check" ELSE "w_drain"]
       ELSE /\ pc' = [pc EXCEPT ![Worker] =
                        IF batch[Worker] # <<>> THEN "fb_check" ELSE "w_sleep"]
            /\ UNCHANGED <<write_queue, batch>>
    /\ UNCHANGED <<tsvars, cfg, env, level, closed, file_handle, current_size, file_lock,
                   files, console, needs_rotation, cur, calls, closeCalls, raised,
                   ioErrors, pushed, timeouts, lateLog, accepted, lastRot>>

\* time.sleep(self._FLUSH_INTERVAL), then back to the loop test.
WorkerSleep ==
    /\ pc[Worker] = "w_sleep"
    /\ pc' = [pc EXCEPT ![Worker] = "w_check"]
    /\ UNCHANGED <<tsvars, cfg, env, level, closed, write_queue, file_handle, current_size,
                   file_lock, files, console, batch, needs_rotation, cur, calls,
                   closeCalls, raised, ioErrors, pushed, timeouts, lateLog, accepted, lastRot>>

\* ---------------------------------------------------------------- _flush_batch
\* Where _flush_batch returns to: the worker's sleep, or close()'s drain loop.
Return(t) == IF t = Worker THEN "w_sleep" ELSE "c_loop"

\* A rotation test that leaves out enable_rotation.
NeedsRotationBySize(c, cs, b) == cs + Size(b) > c.max_file_size

\* needs_rotation = self.enable_rotation and total_size > self.max_file_size
NeedsRotation(c, cs, b) == c.enable_rotation /\ cs + Size(b) > c.max_file_size

\* Lines 304-315: the size check, made holding the file lock.
FlushCheck(t) ==
    /\ pc[t] = "fb_check"
    /\ file_lock = NoThread
    /\ needs_rotation' = [needs_rotation EXCEPT ![t] = NeedsRotation(cfg, current_size, batch[t])]
    /\ pc' = [pc EXCEPT ![t] =
                IF batch[t] = <<>> THEN Return(t)
                ELSE IF NeedsRotation(cfg, current_size, batch[t]) THEN "fb_rotate"
                ELSE "fb_write"]
    /\ UNCHANGED <<tsvars, cfg, env, level, closed, write_queue, file_handle, current_size,
                   file_lock, files, console, batch, cur, calls, closeCalls, raised,
                   ioErrors, pushed, timeouts, lateLog, accepted, lastRot>>

\* Lines 318-320 and 164-169: call _rotate_log, which takes the file lock.
RotateAcquire(t) ==
    /\ pc[t] = "fb_rotate"
    /\ file_lock = NoThread
    /\ file_lock' = t
    /\ pc' = [pc EXCEPT ![t] = "fb_rotating"]
    /\ UNCHANGED <<tsvars, cfg, env, level, closed, write_queue, file_handle, current_size,
                   files, console, batch, needs_rotation, cur, calls, closeCalls,
                   raised, ioErrors, pushed, timeouts, lateLog, accepted, lastRot>>

\* The loop indexes at which the rotation timeout can fire; 0 is "never".
TimeoutPoints(N) == {0} \cup 1..(N - 1)

\* Lines 170-276: the rotation, then the release of the file lock.
RotateBody(t) ==
    /\ pc[t] = "fb_rotating"
    /\ \E F \in FaultSets(RotateFaultPoints(cfg.backup_count), Budget),
          tmo \in TimeoutPoints(cfg.backup_count) :
         LET r == RotateLog(FileState, cfg, F, tmo)
         IN  /\ F # {} => r # RotateLog(FileState, cfg, {}, tmo)
             /\ files' = r.st.files
             /\ file_handle' = r.st.handle
             /\ current_size' = r.st.cs
             /\ ioErrors' = ioErrors + Cardinality(F)
             /\ lastRot' = [outcome |-> r.outcome, before |-> files, faults |-> F,
                             count |-> IF r.outcome = "rotated" THEN lastRot.count + 1
                                       ELSE lastRot.count,
                             first |-> IF r.outcome = "rotated" /\ lastRot.count = 0
                                       THEN files[0].data ELSE lastRot.first,
                             broken |-> (lastRot.broken \/ F # {}
                                         \/ r.outcome \in {"timeout", "error"})]
    /\ file_lock' = NoThread
    /\ pc' = [pc EXCEPT ![t] = "fb_reset"]
    /\ UNCHANGED <<tsvars, cfg, env, level, closed, write_queue, console, batch,
                   needs_rotation, cur, calls, closeCalls, raised, pushed, timeouts,
                   lateLog, accepted>>

\* A reset of the counter that takes the file lock and keeps it.
FlushResetKeepsLock(t) ==
    /\ pc[t] = "fb_reset"
    /\ file_lock = NoThread
    /\ file_lock' = t
    /\ current_size' = 0
    /\ pc' = [pc EXCEPT ![t] = "fb_write"]
    /\ UNCHANGED <<tsvars, cfg, env, level, closed, write_queue, file_handle,
                   files, console, batch, needs_rotation, cur, calls, closeCalls,
                   raised, ioErrors, pushed, timeouts, lateLog, accepted, lastRot>>

\* Lines 321-322: `with self._file_lock: self._current_size = 0`.
FlushReset(t) ==
    /\ pc[t] = "fb_reset"
    /\ file_lock = NoThread
    /\ current_size' = 0
    /\ pc' = [pc EXCEPT ![t] = "fb_write"]
    /\ UNCHANGED <<tsvars, cfg, env, level, closed, write_queue, file_handle, file_lock,
                   files, console, batch, needs_rotation, cur, calls, closeCalls,
                   raised, ioErrors, pushed, timeouts, lateLog, accepted, lastRot>>

\* A write section entered without waiting for the file lock.
WriteAcquireUnlocked(t) ==
    /\ pc[t] = "fb_write"
    /\ file_lock' = t
    /\ pc' = [pc EXCEPT ![t] = "fb_writing"]
    /\ UNCHANGED <<tsvars, cfg, env, level, closed, write_queue, file_handle, current_size,
                   files, console, batch, needs_rotation, cur, calls, closeCalls,
                   raised, ioErrors, pushed, timeouts, lateLog, accepted, lastRot>>

\* Line 325: take the file lock for the write.
WriteAcquire(t) ==
    /\ pc[t] = "fb_write"
    /\ file_lock = NoThread
    /\ file_lock' = t
    /\ pc' = [pc EXCEPT ![t] = "fb_writing"]
    /\ UNCHANGED <<tsvars, cfg, env, level, closed, write_queue, file_handle, current_size,
                   files, console, batch, needs_rotation, cur, calls, closeCalls,
                   raised, ioErrors, pushed, timeouts, lateLog, accepted, lastRot>>

\* Lines 326-337: write the batch, release the lock; an exception is caught
\* by _flush_batch itself and the call returns.
WriteBody(t) ==
    /\ pc[t] = "fb_writing"
    /\ \E fault \in {<<"none", 0>>} \cup
                    (IF Budget > 0 THEN WriteFaults(Len(batch[t])) ELSE {}) :
         LET st == WriteBatch(FileState, batch[t], fault)
         IN  /\ files' = st.files
             /\ current_size' = st.cs
             /\ ioErrors' = IF fault[1] = "none" THEN ioErrors ELSE ioErrors + 1
             /\ raised' = IF fault[1] # "none" /\ Escapes(fault[1])
                          THEN raised \cup {t} ELSE raised
    /\ file_lock' = NoThread
    /\ batch' = [batch EXCEPT ![t] = <<>>]
    /\ pc' = [pc EXCEPT ![t] = Return(t)]
    /\ UNCHANGED <<tsvars, cfg, env, level, closed, write_queue, file_handle, console,
                   needs_rotation, cur, calls, closeCalls, pushed, timeouts,
                   lateLog, accepted, lastRot>>

\* ---------------------------------------------------------------- close()
\* A close() without the test of _closed: every call runs the shutdown.
CloseCallUnguarded(c) ==
    /\ pc[c] = "c_idle"
    /\ c \in CloseCallers(env)
    /\ closeCalls < MaxCloseCalls
    /\ closeCalls' = closeCalls + 1
    /\ pc' = [pc EXCEPT ![c] = "c_set"]
    /\ UNCHANGED <<tsvars, cfg, env, level, closed, write_queue, file_handle, current_size,
                   file_lock, files, console, batch, needs_rotation, cur, calls,
                   raised, ioErrors, pushed, timeouts, lateLog, accepted, lastRot>>

\* Lines 370-371: `if self._closed: return`.
CloseCall(c) ==
    /\ pc[c] = "c_idle"
    /\ c \in CloseCallers(env)
    /\ closeCalls < MaxCloseCalls
    /\ closeCalls' = closeCalls + 1
    /\ pc' = [pc EXCEPT ![c] = IF closed THEN "c_idle" ELSE "c_set"]
    /\ UNCHANGED <<tsvars, cfg, env, level, closed, write_queue, file_handle, current_size,
                   file_lock, files, console, batch, needs_rotation, cur, calls,
                   raised, ioErrors, pushed, timeouts, lateLog, accepted, lastRot>>

\* Lines 373-378: set the flag, print, start the shutdown clock.
CloseSet(c) ==
    /\ pc[c] = "c_set"
    /\ closed' = TRUE
    /\ \E pf \in MayFail :
         /\ pf => cfg.console_output
         /\ IF SafeConsoleOutput(pf)
            THEN /\ pc' = [pc EXCEPT ![c] = "c_loop"]
                 /\ UNCHANGED raised
            ELSE /\ pc' = [pc EXCEPT ![c] = "c_idle"]
                 /\ raised' = raised \cup {c}
    /\ UNCHANGED <<tsvars, cfg, env, level, write_queue, file_handle, current_size, file_lock,
                   files, console, batch, needs_rotation, cur, calls, closeCalls,
                   ioErrors, pushed, timeouts, lateLog, accepted, lastRot>>

\* Line 380: `while not queue.empty() and time.time() - start_time < timeout`.
CloseLoop(c) ==
    /\ pc[c] = "c_loop"
    /\ \/ /\ write_queue = <<>>
          /\ pc' = [pc EXCEPT ![c] = "c_join"]
          /\ UNCHANGED <<batch, timeouts>>
       \/ /\ write_queue # <<>>
          /\ pc' = [pc EXCEPT ![c] = "c_drain"]
          /\ batch' = [batch EXCEPT ![c] = <<>>]
          /\ UNCHANGED timeouts
       \/ /\ write_queue # <<>>
          /\ timeouts' = TRUE
          /\ pc' = [pc EXCEPT ![c] = "c_join"]
          /\ UNCHANGED batch
    /\ UNCHANGED <<tsvars, cfg, env, level, closed, write_queue, file_handle, current_size,
                   file_lock, files, console, needs_rotation, cur, calls, closeCalls,
                   raised, ioErrors, pushed, lateLog, accepted, lastRot>>

\* Lines 382-394: one turn of the inner loop, then `if batch: _flush_batch`.
ClosePop(c) ==
    /\ pc[c] = "c_drain"
    /\ IF write_queue # <<>> /\ Len(batch[c]) < BatchSize(cfg)
       THEN /\ write_queue' = Tail(write_queue)
            /\ batch' = [batch EXCEPT ![c] = Append(@, Head(write_queue))]
            /\ UNCHANGED pc
       ELSE /\ pc' = [pc EXCEPT ![c] = IF batch[c] # <<>> THEN "fb_check" ELSE "c_loop"]
            /\ UNCHANGED <<write_queue, batch>>
    /\ UNCHANGED <<tsvars, cfg, env, level, closed, file_handle, current_size, file_lock,
                   files, console, needs_rotation, cur, calls, closeCalls, raised,
                   ioErrors, pushed, timeouts, lateLog, accepted, lastRot>>

\* Lines 397-401: join the writer thread for at most 1 s.
CloseJoin(c) ==
    /\ pc[c] = "c_join"
    /\ pc' = [pc EXCEPT ![c] = "c_closeh"]
    /\ timeouts' = (timeouts \/ pc[Worker] # "w_done")
    /\ UNCHANGED <<tsvars, cfg, env, level, closed, write_queue, file_handle, current_size,
                   file_lock, files, console, batch, needs_rotation, cur, calls,
                   closeCalls, raised, ioErrors, pushed, lateLog, accepted, lastRot>>

\* Line 404: take the file lock.
CloseHandleAcquire(c) ==
    /\ pc[c] = "c_closeh"
    /\ file_lock = NoThread
    /\ file_lock' = c
    /\ pc' = [pc EXCEPT ![c] = "c_closing"]
    /\ UNCHANGED <<tsvars, cfg, env, level, closed, write_queue, file_handle, current_size,
                   files, console, batch, needs_rotation, cur, calls, closeCalls,
                   raised, ioErrors, pushed, timeouts, lateLog, accepted, lastRot>>

\* Lines 405-416: flush and close the handle, clear it, release the lock, return.
CloseHandle(c) ==
    /\ pc[c] = "c_closing"
    /\ \E hf \in MayFail, pf \in MayFail :
         /\ hf => file_handle
         /\ pf => cfg.console_output
         /\ raised' = IF (hf /\ Escapes("hclose")) \/ ~SafeConsoleOutput(pf)
                      THEN raised \cup {c} ELSE raised
    /\ file_handle' = FALSE
    /\ file_lock' = NoThread
    /\ pc' = [pc EXCEPT ![c] = "c_idle"]
    /\ UNCHANGED <<tsvars, cfg, env, level, closed, write_queue, current_size, files, console,
                   batch, needs_rotation, cur, calls, closeCalls, ioErrors, pushed,
                   timeouts, lateLog, accepted, lastRot>>

\* ---------------------------------------------------------------- specification
Next ==
    \/ \E p \in Producers : LogCheck(p)
    \/ \E p \in Producers : LogPut(p)
    \/ WorkerCheck
    \/ WorkerDrain
    \/ WorkerSleep
    \/ \E t \in Flushers : FlushCheck(t)
    \/ \E t \in Flushers : RotateAcquire(t)
    \/ \E t \in Flushers : RotateBody(t)
    \/ \E t \in Flushers : FlushReset(t)
    \/ \E t \in Flushers : WriteAcquire(t)
    \/ \E t \in Flushers : WriteBody(t)
    \/ \E c \in Closers : CloseCall(c)
    \/ \E c \in Closers : CloseSet(c)
    \/ \E c \in Closers : CloseLoop(c)
    \/ \E c \in Closers : ClosePop(c)
    \/ \E c \in Closers : CloseJoin(c)
    \/ \E c \in Closers : CloseHandleAcquire(c)
    \/ \E c \in Closers : CloseHandle(c)

Spec == Init /\ [][Next]_vars

\* ---------------------------------------------------------------- faults
\* One producer, the console mirror on, an active file already over the size
\* limit, and up to MaxFaults failing I/O calls (open, write, flush, rename,
\* remove, getsize, close, print).
InitFaults ==
    \E bc \in {2} :
        InitWith([max_file_size |-> 40, backup_count |-> bc, enable_rotation |-> TRUE,
                  console_output |-> TRUE, truncate_file |-> FALSE],
                 "DEBUG",
                 [faults |-> MaxFaults, levels |-> {"INFO"},
                  calls |-> [p \in Producers |-> IF p = "p1" THEN MaxCalls ELSE 0],
                  setLevels |-> {}, backups |-> {}])

SpecFaults == InitFaults /\ [][Next]_vars

\* ---------------------------------------------------------------- levels
\* The level setter, lines 115-121, called with a level string.
SetLevel ==
    /\ \E v \in env.setLevels :
         /\ LevelValue(v) # level
         /\ level' = LevelValue(v)
    /\ UNCHANGED <<tsvars, cfg, env, closed, write_queue, file_handle, current_size, file_lock,
                   files, console, pc, batch, needs_rotation, cur, calls, closeCalls,
                   raised, ioErrors, pushed, timeouts, lateLog, accepted, lastRot>>

\* One producer calling at DEBUG and WARNING on a logger built at INFO whose
\* level is set to WARNING and back meanwhile; the console mirror is on.
InitLevels ==
    InitWith([max_file_size |-> 100, backup_count |-> 1, enable_rotation |-> TRUE,
              console_output |-> TRUE, truncate_file |-> TRUE],
             "INFO",
             [faults |-> 0, levels |-> {"DEBUG", "WARNING"},
              calls |-> [p \in Producers |-> IF p = "p1" THEN MaxCalls ELSE 0],
              setLevels |-> {"INFO", "WARNING"}, backups |-> {}])

NextLevels == Next \/ SetLevel

SpecLevels == InitLevels /\ [][NextLevels]_vars

\* ---------------------------------------------------------------- rotation on or off
\* Two producers on a logger built with enable_rotation true or false, over an
\* active file an earlier run left above the size limit.
InitNoRotation ==
    \E er \in BOOLEAN :
        InitWith([max_file_size |-> 40, backup_count |-> 1, enable_rotation |-> er,
                  console_output |-> FALSE, truncate_file |-> FALSE],
                 "DEBUG",
                 [faults |-> 0, levels |-> {"INFO"},
                  calls |-> [p \in Producers |-> MaxCalls], setLevels |-> {},
                  backups |-> {}])

SpecNoRotation == InitNoRotation /\ [][Next]_vars

\* ---------------------------------------------------------------- a directory with backups
ShiftBackupCount == 3

\* One producer on a logger with three backup slots, built in a directory that
\* already holds any of path.1, path.2, path.3.
InitShift ==
    \E bs \in SUBSET (1..ShiftBackupCount) :
        InitWith([max_file_size |-> 40, backup_count |-> ShiftBackupCount,
                  enable_rotation |-> TRUE, console_output |-> FALSE,
                  truncate_file |-> FALSE],
                 "DEBUG",
                 [faults |-> 0, levels |-> {"INFO"},
                  calls |-> [p \in Producers |-> IF p = "p1" THEN MaxCalls ELSE 0],
                  setLevels |-> {}, backups |-> bs])

SpecShift == InitShift /\ [][Next]_vars

\* ---------------------------------------------------------------- fair scheduling
\* The steps of _flush_batch run by thread t.
FlushStep(t) ==
    \/ FlushCheck(t) \/ RotateAcquire(t) \/ RotateBody(t)
    \/ FlushReset(t) \/ WriteAcquire(t) \/ WriteBody(t)

\* The steps of the writer thread.
WorkerStep == WorkerCheck \/ WorkerDrain \/ WorkerSleep \/ FlushStep(Worker)

\* The steps of a close() call once it has started.
CloserStep(c) ==
    \/ CloseSet(c) \/ CloseLoop(c) \/ ClosePop(c) \/ CloseJoin(c)
    \/ CloseHandleAcquire(c) \/ CloseHandle(c) \/ FlushStep(c)

\* The scheduler lets the writer thread and a thread inside close() run as
\* long as they can take a step; producers may stop at any point.
Fairness == WF_vars(WorkerStep) /\ \A c \in Closers : WF_vars(CloserStep(c))

\* One producer that may log at any time, before, during and after close().
InitLive ==
    InitWith([max_file_size |-> 40, backup_count |-> 1, enable_rotation |-> TRUE,
              console_output |-> FALSE, truncate_file |-> FALSE],
             "DEBUG",
             [faults |-> 0, levels |-> {"INFO"},
              calls |-> [p \in Producers |-> IF p = "p1" THEN MaxCalls ELSE 0],
              setLevels |-> {}, backups |-> {}])

SpecLive == InitLive /\ [][Next]_vars /\ Fairness

\* ---------------------------------------------------------------- batch sizes
\* One producer on a logger built with batch_size = 1 or without the argument.
InitBatch ==
    \/ InitWith([max_file_size |-> 100, backup_count |-> 1, enable_rotation |-> TRUE,
                 console_output |-> FALSE, truncate_file |-> TRUE, batch_size |-> 1],
                "DEBUG",
                [faults |-> 0, levels |-> {"INFO"},
                 calls |-> [p \in Producers |-> IF p = "p1" THEN MaxCalls ELSE 0],
                 setLevels |-> {}, backups |-> {}])
    \/ InitWith([max_file_size |-> 100, backup_count |-> 1, enable_rotation |-> TRUE,
                 console_output |-> FALSE, truncate_file |-> TRUE, batch_size |-> BATCH_SIZE],
                "DEBUG",
                [faults |-> 0, levels |-> {"INFO"},
                 calls |-> [p \in Producers |-> IF p = "p1" THEN MaxCalls ELSE 0],
                 setLevels |-> {}, backups |-> {}])

SpecBatch == InitBatch /\ [][Next]_vars

\* ---------------------------------------------------------------- two closing threads
\* One producer, and two threads that call close() on the same logger.
InitClose2 ==
    InitWith([max_file_size |-> 40, backup_count |-> 1, enable_rotation |-> TRUE,
              console_output |-> FALSE, truncate_file |-> FALSE],
             "DEBUG",
             [faults |-> 0, levels |-> {"INFO"},
              calls |-> [p \in Producers |-> IF p = "p1" THEN MaxCalls ELSE 0],
              setLevels |-> {}, backups |-> {}, closers |-> Closers])

SpecClose2 == InitClose2 /\ [][Next]_vars

\* ---------------------------------------------------------------- level changes
\* One producer calling at INFO on a logger built at INFO whose level is set
\* to WARNING and back meanwhile; the console mirror is on.
InitSetLevel ==
    InitWith([max_file_size |-> 100, backup_count |-> 1, enable_rotation |-> TRUE,
              console_output |-> TRUE, truncate_file |-> TRUE],
             "INFO",
             [faults |-> 0, levels |-> {"INFO"},
              calls |-> [p \in Producers |-> IF p = "p1" THEN MaxCalls ELSE 0],
              setLevels |-> {"INFO", "WARNING"}, backups |-> {}])

SpecSetLevel == InitSetLevel /\ [][NextLevels]_vars

\* ---------------------------------------------------------------- the timestamp cache
\* The clock advances.
Tick ==
    /\ clock < MaxClock
    /\ clock' = clock + 1
    /\ UNCHANGED <<logvars, last_timestamp, last_timestamp_time, timestamp_lock,
                   current_time, tpc, stamps>>

\* utils.py line 81: `current_time = time.time()`.
TsRead(f) ==
    /\ tpc[f] = "ts_idle"
    /\ current_time' = [current_time EXCEPT ![f] = clock]
    /\ tpc' = [tpc EXCEPT ![f] = "ts_test"]
    /\ UNCHANGED <<logvars, clock, last_timestamp, last_timestamp_time,
                   timestamp_lock, stamps>>

\* The test of lines 82 and 84.
Stale(ct, last) == ct - last > TIMESTAMP_CACHE_TIME

\* utils.py line 82: the test outside the lock; a fresh cache is returned
\* as it is (line 87).
TsTest(f) ==
    /\ tpc[f] = "ts_test"
    /\ tpc' = [tpc EXCEPT ![f] =
                  IF Stale(current_time[f], last_timestamp_time) THEN "ts_lock" ELSE "ts_idle"]
    /\ UNCHANGED <<logvars, clock, last_timestamp, last_timestamp_time,
                   timestamp_lock, current_time, stamps>>

\* utils.py line 83: `with self._timestamp_lock:`.
TsAcquire(f) ==
    /\ tpc[f] = "ts_lock"
    /\ timestamp_lock = NoThread
    /\ timestamp_lock' = f
    /\ tpc' = [tpc EXCEPT ![f] = "ts_locked"]
    /\ UNCHANGED <<logvars, clock, last_timestamp, last_timestamp_time,
                   current_time, stamps>>

\* A refresh that does not repeat the test under the lock.
TsRefreshUnchecked(f) ==
    /\ tpc[f] = "ts_locked"
    /\ last_timestamp' = clock
    /\ last_timestamp_time' = current_time[f]
    /\ stamps' = Append(stamps, current_time[f])
    /\ timestamp_lock' = NoThread
    /\ tpc' = [tpc EXCEPT ![f] = "ts_idle"]
    /\ UNCHANGED <<logvars, clock, current_time>>

\* utils.py lines 84-87: the test again under the lock, the refresh with
\* datetime.now() and the caller's current_time, the release, the return.
TsRefresh(f) ==
    /\ tpc[f] = "ts_locked"
    /\ IF Stale(current_time[f], last_timestamp_time)
       THEN /\ last_timestamp' = clock
            /\ last_timestamp_time' = current_time[f]
            /\ stamps' = Append(stamps, current_time[f])
       ELSE UNCHANGED <<last_timestamp, last_timestamp_time, stamps>>
    /\ timestamp_lock' = NoThread
    /\ tpc' = [tpc EXCEPT ![f] = "ts_idle"]
    /\ UNCHANGED <<logvars, clock, current_time>>

\* A formatter no logger uses, called by the threads of Formatters.
InitTimestamp ==
    InitWith([max_file_size |-> 100, backup_count |-> 1, enable_rotation |-> TRUE,
              console_output |-> FALSE, truncate_file |-> TRUE],
             "DEBUG",
             [faults |-> 0, levels |-> {"INFO"},
              calls |-> [p \in Producers |-> 0],
              setLevels |-> {}, backups |-> {}, closers |-> {}])

NextTimestamp ==
    \/ Tick
    \/ \E f \in Formatters : TsRead(f)
    \/ \E f \in Formatters : TsTest(f)
    \/ \E f \in Formatters : TsAcquire(f)
    \/ \E f \in Formatters : TsRefresh(f)

SpecTimestamp == InitTimestamp /\ [][NextTimestamp]_vars

\* ---------------------------------------------------------------- the package's logger
\* class UltraLog of src/ultralog/__init__.py.  Its log(), _batch_writer and
\* the head of its close() read as those of local.py and are modelled by
\* LogCheck, LogPut, WorkerCheck, WorkerDrain, WorkerSleep, CloseCall,
\* CloseSet, ClosePop and CloseJoin; what differs follows.

\* _rotate_log of the package: after the early return it enters
\* `with self._global_lock:`, an attribute no line of the class assigns, so
\* the lookup raises AttributeError and the rest of the method never runs.
PkgRotateLog(st, c) ==
    IF ~c.enable_rotation
    THEN [st |-> st, raises |-> FALSE]
    ELSE [st |-> st, raises |-> TRUE]

\* _flush_batch of the package, under the file lock: the rotation test, the
\* call of _rotate_log, the reset of the counter, the write; an exception
\* anywhere ends the call in the except branch.
PkgFlushBatch(st, c, b, fault) ==
    IF NeedsRotation(c, st.cs, b)
    THEN LET r == PkgRotateLog(st, c)
         IN  IF r.raises THEN r.st
             ELSE WriteBatch([r.st EXCEPT !.cs = 0], b, fault)
    ELSE WriteBatch(st, b, fault)

\* Lines 236-241: the guards, the batch size, the file lock.
PkgFlushAcquire(t) ==
    /\ pc[t] = "fb_check"
    /\ file_lock = NoThread
    /\ IF batch[t] = <<>>
       THEN /\ pc' = [pc EXCEPT ![t] = Return(t)]
            /\ UNCHANGED file_lock
       ELSE /\ pc' = [pc EXCEPT ![t] = "pk_flushing"]
            /\ file_lock' = t
    /\ UNCHANGED <<tsvars, cfg, env, level, closed, write_queue, file_handle, current_size,
                   files, console, batch, needs_rotation, cur, calls, closeCalls,
                   raised, ioErrors, pushed, timeouts, lateLog, accepted, lastRot>>

\* Lines 242-257: the body of _flush_batch, then the release of the lock.
PkgFlushBody(t) ==
    /\ pc[t] = "pk_flushing"
    /\ \E fault \in {<<"none", 0>>} \cup
                    (IF Budget > 0 THEN WriteFaults(Len(batch[t])) ELSE {}) :
         LET st == PkgFlushBatch(FileState, cfg, batch[t], fault)
         IN  /\ files' = st.files
             /\ current_size' = st.cs
             /\ ioErrors' = IF fault[1] = "none" THEN ioErrors ELSE ioErrors + 1
    /\ file_lock' = NoThread
    /\ batch' = [batch EXCEPT ![t] = <<>>]
    /\ pc' = [pc EXCEPT ![t] = Return(t)]
    /\ UNCHANGED <<tsvars, cfg, env, level, closed, write_queue, file_handle, console,
                   needs_rotation, cur, calls, closeCalls, raised, pushed, timeouts,
                   lateLog, accepted, lastRot>>

\* Line 295: `while not self._write_queue.empty():`, with no timeout.
PkgCloseLoop(c) ==
    /\ pc[c] = "c_loop"
    /\ pc' = [pc EXCEPT ![c] = IF write_queue = <<>> THEN "c_join" ELSE "c_drain"]
    /\ batch' = [batch EXCEPT ![c] = <<>>]
    /\ UNCHANGED <<tsvars, cfg, env, level, closed, write_queue, file_handle, current_size,
                   file_lock, files, console, needs_rotation, cur, calls, closeCalls,
                   raised, ioErrors, pushed, timeouts, lateLog, accepted, lastRot>>

\* Lines 311-318: close the handle, without the file lock.
PkgCloseHandle(c) ==
    /\ pc[c] = "c_closeh"
    /\ file_handle' = FALSE
    /\ pc' = [pc EXCEPT ![c] = "c_idle"]
    /\ UNCHANGED <<tsvars, cfg, env, level, closed, write_queue, current_size, file_lock,
                   files, console, batch, needs_rotation, cur, calls, closeCalls,
                   raised, ioErrors, pushed, timeouts, lateLog, accepted, lastRot>>

\* Two producers on the package's logger, rotation on as by default.
InitPkg ==
    \E mfs \in MaxFileSizes, bc \in BackupCounts :
        InitWith([max_file_size |-> mfs, backup_count |-> bc, enable_rotation |-> TRUE,
                  console_output |-> FALSE, truncate_file |-> TRUE],
                 "DEBUG",
                 [faults |-> 0, levels |-> {"INFO"},
                  calls |-> [p \in Producers |-> MaxCalls], setLevels |-> {}, backups |-> {}])

NextPkg ==
    \/ \E p \in Producers : LogCheck(p)
    \/ \E p \in Producers : LogPut(p)
    \/ WorkerCheck
    \/ WorkerDrain
    \/ WorkerSleep
    \/ \E t \in Flushers : PkgFlushAcquire(t)
    \/ \E t \in Flushers : PkgFlushBody(t)
    \/ \E c \in Closers : CloseCall(c)
    \/ \E c \in Closers : CloseSet(c)
    \/ \E c \in Closers : PkgCloseLoop(c)
    \/ \E c \in Closers : ClosePop(c)
    \/ \E c \in Closers : CloseJoin(c)
    \/ \E c \in Closers : PkgCloseHandle(c)

SpecPkg == InitPkg /\ [][NextPkg]_vars

\* ================================================================ properties
Count(r, s) == Cardinality({i \in 1..Len(s) : s[i] = r})

RECURSIVE InFilesFrom(_, _)
InFilesFrom(r, is) ==
    IF is = {} THEN 0
    ELSE LET i == CHOOSE j \in is : TRUE
         IN  Count(r, files[i].data) + InFilesFrom(r, is \ {i})

\* How many times record r stands in the file set path, path.1, ...
InFiles(r) == InFilesFrom(r, DOMAIN files)

RECURSIVE RecordsIn(_)
\* How many records the files with the given indexes hold together.
RecordsIn(is) ==
    IF is = {} THEN 0
    ELSE LET i == CHOOSE j \in is : TRUE
         IN  Len(files[i].data) + RecordsIn(is \ {i})

RECURSIVE BytesOf(_)
BytesOf(rs) == IF rs = {} THEN 0
               ELSE LET r == CHOOSE q \in rs : TRUE IN r.len + BytesOf(rs \ {r})

\* A close() call has returned to its caller.
CloseReturned == closeCalls >= 1 /\ \A c \in Closers : pc[c] = "c_idle"

WorkerExited == pc[Worker] = "w_done"

\* The backup files path.1 .. path.N that exist.
Backups == {i \in DOMAIN files \ {0} : files[i].ex}

\* ---------------------------------------------------------------- C1
\* C1: once close() has returned and the worker has finished, two records of
\* one producer stand in the destination file in the order of their log() calls.
PerProducerOrder ==
    (CloseReturned /\ WorkerExited /\ ~timeouts /\ ioErrors = 0)
        => \A i, j \in 1..Len(files[0].data) :
              (i < j /\ files[0].data[i].p = files[0].data[j].p)
                  => files[0].data[i].n < files[0].data[j].n

PkgNoLoss ==
    (CloseReturned /\ ~lateLog /\ ~timeouts /\ ioErrors = 0)
        => \A r \in pushed : InFiles(r) = 1

\* ---------------------------------------------------------------- C4
RECURSIVE SeqsOf(_)
SeqsOf(ts) == IF ts = {} THEN <<>>
              ELSE LET t == CHOOSE u \in ts : TRUE IN batch[t] \o SeqsOf(ts \ {t})

RECURSIVE FileData(_)
FileData(is) == IF is = {} THEN <<>>
                ELSE LET i == CHOOSE j \in is : TRUE IN files[i].data \o FileData(is \ {i})

\* Every record on its way to the disk, in queue order then batches then files.
InTransit == write_queue \o SeqsOf(Flushers) \o FileData(DOMAIN files)

Held == {InTransit[i] : i \in 1..Len(InTransit)}

\* C4: a record whose severity is below the minimum its call read is nowhere:
\* not pushed, not queued, not in a batch, not in a file, not on the console;
\* a call at or above the minimum pushes its record exactly once.
SeverityFilter ==
    /\ \A r \in pushed \cup console \cup accepted \cup Held : r.lv >= r.min
    /\ \A p \in Producers :
          /\ cur[p] # NoRec => cur[p].lv >= cur[p].min
          /\ pc[p] = "idle" => {r \in accepted : r.p = p} = {r \in pushed : r.p = p}
    /\ \A r \in pushed : Count(r, InTransit) = 1

\* A WARNING call was accepted and pushed after a DEBUG call had been dropped
\* on the open logger.
SeverityFilterWitness ==
    /\ ~closed /\ closeCalls = 0
    /\ calls["p1"] = 2 /\ pc["p1"] = "idle"
    /\ Cardinality(pushed) = 1
    /\ \E r \in pushed : r.lv = 30 /\ r.min = 30 /\ r.n = 2

\* ---------------------------------------------------------------- C5
\* C5: a close() call made after an earlier close() has returned returns at
\* once: it raises nothing, pops nothing and leaves the files, the size
\* counter and the handle as they were.
CloseIdempotent ==
    [][\A c \in Closers :
          (pc[c] = "c_idle" /\ closeCalls >= 1 /\ closeCalls' = closeCalls + 1)
              => /\ pc'[c] = "c_idle"
                 /\ UNCHANGED <<write_queue, batch, files, current_size, file_handle,
                                closed, raised>>]_vars

\* The second close() call has returned.
CloseIdempotentWitness ==
    closeCalls = 2 /\ closed /\ ~file_handle /\ \A c \in Closers : pc[c] = "c_idle"

\* ---------------------------------------------------------------- C6
\* C6: after a rotation without I/O error or timeout, path.1 holds what the
\* active file held when the rotation started.
RotatedActiveIsBackup1 ==
    (lastRot.outcome = "rotated" /\ lastRot.faults = {} /\ cfg.backup_count >= 1)
        => (files[1].ex /\ files[1].data = lastRot.before[0].data)

\* ---------------------------------------------------------------- C7
\* C7: no backup file beyond path.N exists, so at most N backups exist.
BackupBound ==
    /\ \A i \in DOMAIN files : i > cfg.backup_count => ~files[i].ex
    /\ Cardinality(Backups) <= cfg.backup_count

\* A rotation ran while path.N already existed, and every backup slot is in use.
BackupBoundWitness ==
    /\ lastRot.outcome = "rotated"
    /\ lastRot.before[cfg.backup_count].ex
    /\ Backups = 1..cfg.backup_count

\* ---------------------------------------------------------------- C8
\* C8: once more than N rotations have completed, what the active file held
\* before the first of them is in no file of the set.
RetentionDropsOldest ==
    lastRot.count > cfg.backup_count
        => \A k \in 1..Len(lastRot.first) : InFiles(lastRot.first[k]) = 0

\* ---------------------------------------------------------------- C9
\* C9: one thread logged more than (N+1)*S bytes and closed the logger; once
\* close() has returned (no timeout, no I/O error, worker finished)
\* path.1 .. path.N exist.
BackupsAppear ==
    (/\ CloseReturned /\ WorkerExited /\ ~lateLog /\ ~timeouts /\ ioErrors = 0
     /\ ~lastRot.broken
     /\ \E p \in Producers : \A r \in pushed : r.p = p
     /\ cfg.backup_count >= 1
     /\ BytesOf(pushed) > (cfg.backup_count + 1) * cfg.max_file_size)
        => \A i \in 1..cfg.backup_count : files[i].ex

\* ---------------------------------------------------------------- C10
\* C10: whatever I/O call fails, no exception leaves log() or close() and
\* none ends the writer thread.
NoCallRaises == raised = {}

\* An I/O call failed, and the calls went on to the end of the shutdown.
NoCallRaisesWitness ==
    ioErrors >= 1 /\ CloseReturned /\ WorkerExited /\ pushed # {}

\* ---------------------------------------------------------------- C11
\* The steps of a log() call that is under way or may start.
LogStepReady(p) ==
    /\ pc[p] = "put" => ENABLED LogPut(p)
    /\ (pc[p] = "idle" /\ calls[p] < env.calls[p] /\ TotalCalls < MaxCalls)
          => ENABLED LogCheck(p)

\* C11: no producer ever holds the file lock, and whoever holds it, every
\* step of a log() call can be taken: the call runs to its return while a
\* batch write, a rotation or the closing of the handle holds the lock.
ProducersNeverBlocked ==
    /\ file_lock \notin Producers
    /\ \A p \in Producers : LogStepReady(p)

\* A log() call is about to put its record while the worker holds the file
\* lock inside the rotation or inside the write of a batch.
ProducersNeverBlockedWitness ==
    /\ file_lock = Worker
    /\ pc[Worker] \in {"fb_rotating", "fb_writing"}
    /\ \E p \in Producers : pc[p] = "put" /\ cur[p] # NoRec

\* ---------------------------------------------------------------- C12
\* s is an initial part of t.
IsPrefix(s, t) == Len(s) <= Len(t) /\ s = SubSeq(t, 1, Len(s))

\* C12: with enable_rotation false no step rotates: no rotation is recorded,
\* no backup file is created, renamed or removed, current_size never goes
\* down, the handle is closed by close() only, and the active file only
\* grows, by the records of the batch being written.
RotationOffFrame ==
    [][~cfg.enable_rotation =>
          /\ lastRot' = lastRot
          /\ \A i \in DOMAIN files \ {0} : files'[i] = files[i]
          /\ files'[0].ex
          /\ IsPrefix(files[0].data, files'[0].data)
          /\ current_size' - current_size = Size(files'[0].data) - Size(files[0].data)
          /\ file_handle' # file_handle => \E c \in Closers : pc[c] = "c_closing"
          /\ \A t \in Flushers : pc'[t] \notin {"fb_rotate", "fb_rotating", "fb_reset"}]_vars

\* With rotation off, close() has returned and the active file holds more
\* than max_file_size bytes, records of both producers among them.
RotationOffWitness ==
    /\ ~cfg.enable_rotation
    /\ CloseReturned /\ WorkerExited
    /\ Size(files[0].data) > cfg.max_file_size
    /\ \A p \in Producers : \E r \in pushed : r.p = p /\ InFiles(r) = 1
    /\ Backups = {}

\* ---------------------------------------------------------------- C13
\* C13: with rotation on, a flush shifts the backups before its write exactly
\* when current_size + batch bytes > max_file_size: the rotation is entered
\* only with needs_rotation set, and a rotation entered without timeout or
\* I/O error shifts the backups.
RotationTrigger ==
    [][\A t \in Flushers :
          /\ (pc[t] = "fb_check" /\ pc'[t] = "fb_rotate")
                <=> (pc[t] = "fb_check" /\ pc'[t] # "fb_check" /\ batch[t] # <<>>
                     /\ cfg.enable_rotation
                     /\ current_size + Size(batch[t]) > cfg.max_file_size)
          /\ (pc[t] = "fb_rotating" /\ pc'[t] = "fb_reset"
               /\ lastRot'.faults = {} /\ lastRot'.outcome # "timeout")
                => lastRot'.outcome = "rotated"]_vars

\* ---------------------------------------------------------------- C14
\* C14: whenever the file lock is free, current_size is the byte length of
\* the active file.
SizeCounterAccurate ==
    (file_lock = NoThread /\ ioErrors = 0)
        => current_size = Size(files[0].data)

\* ---------------------------------------------------------------- C15
\* C15: right after a rotation without timeout or I/O error the active path
\* exists, is empty, and current_size is 0.
FreshFileAfterRotation ==
    [][\A t \in Flushers :
          (pc[t] = "fb_rotating" /\ pc'[t] = "fb_reset"
           /\ lastRot'.outcome = "rotated" /\ lastRot'.faults = {})
              => /\ files'[0].ex
                 /\ files'[0].data = <<>>
                 /\ current_size' = 0]_vars

\* ---------------------------------------------------------------- C16
\* No _flush_batch call is under way.
NoFlushInProgress ==
    \A t \in Flushers :
        pc[t] \notin {"fb_check", "fb_rotate", "fb_rotating", "fb_reset", "fb_write", "fb_writing"}

\* C16: with rotation on, an active file within the limit at construction
\* and all the records logged together at most max_file_size bytes long (so
\* that every flushed batch is), the active file holds at most max_file_size
\* bytes whenever no flush is under way.
ActiveFileBounded ==
    (/\ cfg.enable_rotation
     /\ Size(InitialFile(cfg).data) <= cfg.max_file_size
     /\ ioErrors = 0 /\ ~lastRot.broken
     /\ NoFlushInProgress
     /\ BytesOf(pushed) <= cfg.max_file_size)
        => Size(files[0].data) <= cfg.max_file_size

\* ---------------------------------------------------------------- C17
\* C17: after a rotation without timeout or I/O error every backup path.i,
\* i < N, that existed before is now path.(i+1), unchanged, and what path.N
\* held before is in no file.
BackupShift ==
    (lastRot.outcome = "rotated" /\ lastRot.faults = {})
        => /\ \A i \in 1..(cfg.backup_count - 1) :
                 lastRot.before[i].ex => files[i + 1] = lastRot.before[i]
           /\ \A k \in 1..Len(lastRot.before[cfg.backup_count].data) :
                 InFiles(lastRot.before[cfg.backup_count].data[k]) = 0

\* A rotation moved path.1 to path.2 and path.2 to path.3 and dropped what
\* path.3 held.
BackupShiftWitness ==
    /\ lastRot.outcome = "rotated" /\ lastRot.faults = {}
    /\ cfg.backup_count = ShiftBackupCount
    /\ \A i \in 1..ShiftBackupCount : lastRot.before[i] = File(<<OldBackup(i)>>)
    /\ files[2] = File(<<OldBackup(1)>>)
    /\ files[3] = File(<<OldBackup(2)>>)
    /\ InFiles(OldBackup(3)) = 0

\* ---------------------------------------------------------------- C18
\* The threads inside a critical section on the file state: the write of a
\* batch, the rotation, the closing of the handle.
InCritical == {t \in Flushers : pc[t] \in {"fb_writing", "fb_rotating", "c_closing"}}

\* C18: a thread inside one of the three critical sections holds the file
\* lock, so no two of them are under way at once.
FileLockExclusion ==
    /\ \A t \in InCritical : file_lock = t
    /\ Cardinality(InCritical) <= 1

\* The worker is inside a rotation while close() waits for the file lock,
\* to write its batch or to close the handle.
FileLockExclusionWitness ==
    /\ pc[Worker] = "fb_rotating" /\ file_lock = Worker
    /\ \E c \in Closers : pc[c] \in {"fb_write", "fb_rotate", "c_closeh"}

\* ---------------------------------------------------------------- C19
\* C19: as long as the background worker has not left its loop, a record
\* leaves the queue in a step of the worker only.
SingleConsumer ==
    [][(Len(write_queue') < Len(write_queue) /\ ~WorkerExited)
          => (pc[Worker] = "w_drain" /\ batch'[Worker] # batch[Worker])]_vars

\* ---------------------------------------------------------------- C20
\* C20: the worker leaves its loop only when the logger is closed and the
\* queue is empty.
WorkerExitsDrained ==
    [][(pc[Worker] = "w_check" /\ pc'[Worker] = "w_done")
          => (closed /\ write_queue = <<>>)]_vars

\* ---------------------------------------------------------------- C21
\* C21: under fair scheduling, once close() has been called it returns and
\* the writer thread leaves its loop.
ShutdownTerminates == (closeCalls >= 1) ~> (CloseReturned /\ WorkerExited)

\* close() has returned and the worker has exited although a log() call ran
\* during the shutdown and the join on the worker timed out.
ShutdownTerminatesWitness ==
    CloseReturned /\ WorkerExited /\ lateLog /\ timeouts /\ pushed # {}

\* ---------------------------------------------------------------- C22
\* C22: once close() has returned without timeout, the worker has exited and
\* no log() call is under way, no record is left in the queue.
NoStrandedRecord ==
    (/\ CloseReturned /\ WorkerExited /\ ~timeouts /\ ioErrors = 0
     /\ \A p \in Producers : pc[p] = "idle")
        => write_queue = <<>>

\* ---------------------------------------------------------------- C23
\* C23: once close() has returned no step changes a file of the set or the
\* file handle.
FinalAfterClose ==
    [][CloseReturned => (files' = files /\ file_handle' = file_handle)]_vars

\* ---------------------------------------------------------------- C24
\* Thread t is inside a _flush_batch call.
Flushing(t) ==
    pc[t] \in {"fb_check", "fb_rotate", "fb_rotating", "fb_reset", "fb_write", "fb_writing"}

\* C24: a batch handed to _flush_batch holds between 1 and batch_size
\* records, those of one producer in the order of their log() calls, and a
\* batch grows only by the record popped from the head of the queue, at its
\* end.
BatchBound ==
    /\ [](\A t \in Flushers :
            Flushing(t) =>
                /\ Len(batch[t]) >= 1
                /\ Len(batch[t]) <= BatchSize(cfg)
                /\ \A i, j \in 1..Len(batch[t]) :
                      (i < j /\ batch[t][i].p = batch[t][j].p)
                          => batch[t][i].n < batch[t][j].n)
    /\ [][\A t \in Flushers :
             (batch'[t] # batch[t] /\ batch'[t] # <<>>)
                 => /\ write_queue # <<>>
                    /\ batch'[t] = Append(batch[t], Head(write_queue))
                    /\ write_queue' = Tail(write_queue)]_vars

\* The worker hands a full batch of one record to _flush_batch while another
\* record waits in the queue.
BatchBoundWitness ==
    /\ BatchSize(cfg) = 1
    /\ pc[Worker] = "fb_check"
    /\ Len(batch[Worker]) = 1
    /\ write_queue # <<>>

\* ---------------------------------------------------------------- C25
\* C25: however _rotate_log ends (rotated, skipped, timed out, I/O error)
\* it returns to _flush_batch with the batch intact and the active path in
\* place, and a write in which no I/O call fails appends the whole batch.
RotationKeepsWritable ==
    [][\A t \in Flushers :
          /\ (pc[t] = "fb_rotating" /\ pc'[t] # "fb_rotating")
                => /\ pc'[t] = "fb_reset"
                   /\ files'[0].ex
                   /\ batch'[t] = batch[t]
                   /\ raised' = raised
          /\ (pc[t] = "fb_writing" /\ pc'[t] # "fb_writing" /\ ioErrors' = ioErrors)
                => files'[0] = File(files[0].data \o batch[t])]_vars

\* The only record logged is in the active file, written after a rotation
\* that ended in its timeout or in an I/O error.
RotationKeepsWritableWitness ==
    /\ lastRot.outcome \in {"timeout", "error", "rotated"}
    /\ lastRot.broken
    /\ (lastRot.outcome = "rotated" => lastRot.faults # {})
    /\ Cardinality(pushed) = 1
    /\ \A r \in pushed : InFiles(r) = 1 /\ Count(r, lastRot.before[0].data) = 0

\* ---------------------------------------------------------------- C26
\* C26: the write of a batch, failing or not, returns to its caller without
\* raising, appends an initial part of the batch to the active file (all of
\* it when no I/O call fails) and touches nothing else: not the queue, not
\* another thread's batch, not a backup.
DegradedOperation ==
    [][\A t \in Flushers :
          (pc[t] = "fb_writing" /\ pc'[t] # "fb_writing")
              => /\ pc'[t] = Return(t)
                 /\ raised' = raised
                 /\ write_queue' = write_queue
                 /\ \A u \in Flushers \ {t} : batch'[u] = batch[u]
                 /\ \A i \in DOMAIN files \ {0} : files'[i] = files[i]
                 /\ \E k \in 0..Len(batch[t]) :
                       /\ files'[0].data = files[0].data \o SubSeq(batch[t], 1, k)
                       /\ ioErrors' = ioErrors => k = Len(batch[t])]_vars

\* The first record was lost to an I/O error and the second one, flushed
\* later, is in the file.
DegradedOperationWitness ==
    /\ ioErrors >= 1
    /\ \E r1, r2 \in pushed :
          /\ r1.n < r2.n
          /\ r1 \notin Held
          /\ InFiles(r2) = 1

\* ---------------------------------------------------------------- C27
\* C27: at most one of the threads that called close() runs the shutdown
\* sequence (drain the queue, join the worker, close the handle).
SingleShutdown == Cardinality({c \in Closers : pc[c] \notin {"c_idle", "c_set"}}) <= 1

\* ---------------------------------------------------------------- C28
\* C28: a log() call is accepted exactly when its severity is at least the
\* level the last completed assignment set, and carries that level; an
\* assignment to the level touches no record, and every pushed record stays
\* exactly once on its way to the disk.
LevelChange ==
    [][/\ \A p \in Producers :
             calls'[p] # calls[p]
                 => /\ \A r \in accepted' \ accepted :
                          r.min = level /\ r.lv >= level /\ pc'[p] = "put" /\ cur'[p] = r
                    /\ pc'[p] = "put"
                          => (accepted' # accepted /\ cur'[p].min = level /\ cur'[p].lv >= level)
       /\ level' # level
             => UNCHANGED <<write_queue, batch, files, pushed, accepted, cur, console, pc>>
       /\ \A r \in pushed : Count(r, InTransit) = 1]_vars

\* On the open logger the first INFO call was accepted at level INFO, the
\* second was dropped, and the level is WARNING.
LevelChangeWitness ==
    /\ level = 30 /\ ~closed /\ closeCalls = 0
    /\ calls["p1"] = 2 /\ pc["p1"] = "idle"
    /\ accepted = pushed /\ Cardinality(accepted) = 1
    /\ \E r \in accepted : r.n = 1 /\ r.min = 20

\* ---------------------------------------------------------------- C29
\* The places where a thread waits for the file lock.
LockWaits == {"fb_check", "fb_rotate", "fb_reset", "fb_write", "c_closeh"}

LogAfterClose ==
    [][\A p \in Producers :
          (closed /\ calls'[p] # calls[p])
              => /\ pc'[p] = "idle"
                 /\ UNCHANGED <<write_queue, console, files, cur, pushed, accepted,
                                batch, current_size>>]_vars

\* The first call was accepted and printed; the second one, made with the
\* flag set, left no trace.
LogAfterCloseWitness ==
    /\ closed /\ ioErrors = 0
    /\ calls["p1"] = 2 /\ pc["p1"] = "idle"
    /\ Cardinality(accepted) = 1 /\ Cardinality(console) = 1
    /\ pushed = accepted

\* ---------------------------------------------------------------- C31
\* C31: the worker enters its sleep only from a drain attempt that popped no
\* record, never on return from the flush of a batch.
WorkerIdling ==
    [][(pc'[Worker] = "w_sleep" /\ pc[Worker] # "w_sleep")
          => (pc[Worker] = "w_drain" /\ batch[Worker] = <<>>)]_vars

\* ---------------------------------------------------------------- C32
\* C32: the capture time is changed only by a caller that holds the
\* timestamp lock and whose observed time is more than the window after the
\* recorded capture time, the new capture time being that observed time; so
\* successive recorded capture times are more than the window apart and the
\* recorded capture time never decreases.
TimestampRefresh ==
    /\ [][/\ last_timestamp_time' >= last_timestamp_time
          /\ (last_timestamp_time' # last_timestamp_time \/ last_timestamp' # last_timestamp)
                => \E f \in Formatters :
                      /\ timestamp_lock = f
                      /\ current_time[f] - last_timestamp_time > TIMESTAMP_CACHE_TIME
                      /\ last_timestamp_time' = current_time[f]
                      /\ stamps' = Append(stamps, current_time[f])]_vars
    /\ [](/\ \A i \in 1..(Len(stamps) - 1) :
                stamps[i + 1] - stamps[i] > TIMESTAMP_CACHE_TIME
          /\ (stamps # <<>> => stamps[Len(stamps)] = last_timestamp_time))

\* Two refreshes have been recorded and a caller that passed the test
\* outside the lock holds the lock with an observed time inside the window.
TimestampRefreshWitness ==
    /\ Len(stamps) = 2
    /\ \E f \in Formatters :
          /\ tpc[f] = "ts_locked"
          /\ ~Stale(current_time[f], last_timestamp_time)
    /\ \E g \in Formatters : tpc[g] = "ts_lock"

====
